---- MODULE Spec2Model ----
(***************************************************************************)
(* SCADA mock dashboard (src/src/App.tsx): the telemetry simulation and    *)
(* alarm evaluation of the App component.                                  *)
(*                                                                         *)
(* Numbers are fixed-point integers in units of 1e-4 (78 is 780000, 2.4 is *)
(* 24000); a Math.random() result is an integer number of thousandths.     *)
(* Time is the wall clock in milliseconds since the component mounted.     *)
(***************************************************************************)
EXTENDS Integers, Sequences, FiniteSets, TLC

VARIABLES
    tempSeries, flowSeries, pressSeries, levelSeries,   \* Point[] state
    tIn, tOut, flow, press, level,                      \* instant readouts
    pumpOn, fanOn, ethConnected, modbusConnected,       \* equipment / comms
    alarms,                                             \* Alarm[] state
    setpoints,                                          \* setpoints state
    timers,          \* live setInterval timers: [id, due, sp (closure)]
    intervalId,      \* the id the current effect's cleanup will clear
    nextId,          \* next id setInterval hands out
    mounted,         \* the component is mounted
    now,             \* wall clock, ms
    newAlarms,       \* the interval callback's local newAlarms, last tick
    pushed,          \* history: the ticks pushed since the last seeding
    logged,          \* history: every alarm logged since the last clear
    ticks,           \* history: number of ticks fired
    lastTickAt,      \* history: clock of the last tick
    cmds,            \* history: number of presentation commands issued
    renders,         \* history: the state slots each render of the last
                     \*   operation showed updated
    last             \* history: the last operation

series == <<tempSeries, flowSeries, pressSeries, levelSeries>>
instant == <<tIn, tOut, flow, press, level>>
equipment == <<pumpOn, fanOn, ethConnected, modbusConnected>>
effect == <<timers, intervalId, nextId>>
history == <<newAlarms, pushed, logged, ticks, lastTickAt>>
vars == <<series, instant, equipment, alarms, setpoints, effect, mounted,
          now, history, cmds, renders, last>>

----------------------------------------------------------------------------
(* Bounds of the model *)

MaxTicks == 2
MaxCmds == 2
MaxTicksLong == 42

(* Program constants *)

Period == 2000
SeriesMax == 40
AlarmMax == 40
SeedLen == 24

Horizon == (MaxTicks + 1) * Period
HorizonLong == (MaxTicksLong + 1) * Period

----------------------------------------------------------------------------
(* Numbers *)

Fixed(n) == n * 10000

\* The value Number() returns for text that is not a number.
NaN == -999999999

Gt(a, b) == a # NaN /\ b # NaN /\ a > b
Lt(a, b) == a # NaN /\ b # NaN /\ a < b

Max2(a, b) == IF a >= b THEN a ELSE b
Min2(a, b) == IF a <= b THEN a ELSE b

\* Number(x.toFixed(2)) for x >= 0: round to the nearest hundredth.
Round2(x) == ((x + 50) \div 100) * 100

DigitValue == ("0" :> 0) @@ ("1" :> 1) @@ ("2" :> 2) @@ ("3" :> 3) @@
              ("4" :> 4) @@ ("5" :> 5) @@ ("6" :> 6) @@ ("7" :> 7) @@
              ("8" :> 8) @@ ("9" :> 9)

AllDigits(s) == \A i \in DOMAIN s : s[i] \in DOMAIN DigitValue

RECURSIVE DigitsValue(_)
DigitsValue(s) ==
    IF s = <<>> THEN 0
    ELSE 10 * DigitsValue(SubSeq(s, 1, Len(s) - 1)) + DigitValue[s[Len(s)]]

RECURSIVE Pow10(_)
Pow10(n) == IF n = 0 THEN 1 ELSE 10 * Pow10(n - 1)

\* Number(text) for text over digits, ".", "-" and letters, given as a
\* sequence of characters with at most four decimals.
Number(s) ==
    LET neg == s # <<>> /\ s[1] = "-"
        body == IF neg THEN SubSeq(s, 2, Len(s)) ELSE s
        dots == {i \in DOMAIN body : body[i] = "."}
        dot == IF dots = {} THEN Len(body) + 1
               ELSE CHOOSE i \in dots : \A j \in dots : i <= j
        ip == SubSeq(body, 1, dot - 1)
        fp == SubSeq(body, dot + 1, Len(body))
        ok == AllDigits(ip) /\ AllDigits(fp) /\ Len(ip) + Len(fp) > 0
              /\ Len(fp) <= 4
        mag == DigitsValue(ip) * 10000 + DigitsValue(fp) * Pow10(4 - Len(fp))
    IN  IF s = <<>> THEN 0
        ELSE IF ~ok THEN NaN
        ELSE IF neg THEN 0 - mag ELSE mag

----------------------------------------------------------------------------
(* Helpers *)

nowLabel(t) == <<"clock", (t \div 1000) % 86400>>

\* Array.prototype.slice(start) and slice(0, end)
SliceFrom(s, start) ==
    LET b == IF start < 0 THEN Max2(Len(s) + start, 0) ELSE Min2(start, Len(s))
    IN  SubSeq(s, b + 1, Len(s))
SliceTo(s, end) == SubSeq(s, 1, Min2(end, Len(s)))

pushSeriesNoEvict(s, point, max) == Append(SliceFrom(s, 0 - max), point)
pushSeries(s, point, max) == Append(SliceFrom(s, 0 - max + 1), point)

\* genSeed(n, avg, vari), its Math.random() results read from rs at off+i
genSeedToCapacity(n, avg, vari, rs, off) ==
    [k \in 1..SeriesMax |->
        [time |-> <<"seed", k - 1>>,
         value |-> Round2(avg + ((rs[off + ((k - 1) % n)] - 500) * vari) \div 1000)]]
genSeed(n, avg, vari, rs, off) ==
    [k \in 1..n |->
        [time |-> <<"seed", k - 1>>,
         value |-> Round2(avg + ((rs[off + k - 1] - 500) * vari) \div 1000)]]

----------------------------------------------------------------------------
(* Inputs of the model *)

\* One tick's Math.random() results, in thousandths.
\* DrawAlarm: tempAvg 79.5, flow 126, press 2.68, level 52.
\* DrawOdd: tempAvg 63.23, flow 179.94, press 1.6, level 30.06.
DrawAlarm == [tIn |-> 900, dT |-> 0, flow |-> 100, press |-> 900, level |-> 400]
DrawOdd == [tIn |-> 333, dT |-> 777, flow |-> 999, press |-> 1, level |-> 1]
Draws == {DrawAlarm, DrawOdd}
DrawsLong == {DrawAlarm}

\* The Math.random() results one seeding of the four series reads.
SeedFlat == [i \in 0..(4 * SeedLen - 1) |-> 500]
SeedMixed == [i \in 0..(4 * SeedLen - 1) |-> (i * 37 + 11) % 1000]
SeedStreams == {SeedFlat, SeedMixed}

\* e.target.value of a setpoint input, as a sequence of characters: an
\* input of type "number" reports the empty string for an empty or
\* malformed entry, and the text of the number otherwise.
Inputs == {<<>>, <<"5", "2">>}

Fields == {"tempHigh", "flowLow", "pressHigh", "levelLow", "levelHigh"}

----------------------------------------------------------------------------
(* Alarm rules of the interval callback *)

HighTempFires(v, sp) == Gt(v, sp.tempHigh)
LowFlowFires(v, sp) == Lt(v, sp.flowLow)
HighPressFires(v, sp) == Gt(v, sp.pressHigh)
LowLevelFires(v, sp) == Lt(v, sp.levelLow)
HighLevelFiresAtThreshold(v, sp) == v # NaN /\ sp.levelHigh # NaN /\ v >= sp.levelHigh
HighLevelFires(v, sp) == Gt(v, sp.levelHigh)

Alarm(type, v, time) == [type |-> type, value |-> Round2(v), time |-> time]

EvaluateRules(avg, fl, pr, lv, sp, time) ==
    (IF HighTempFires(avg, sp)
        THEN <<Alarm("Alta Temperatura", avg, time)>> ELSE <<>>)
    \o (IF LowFlowFires(fl, sp)
        THEN <<Alarm("Baixa Vazao", fl, time)>> ELSE <<>>)
    \o (IF HighPressFires(pr, sp)
        THEN <<Alarm("Pressao Elevada", pr, time)>> ELSE <<>>)
    \o (IF LowLevelFires(lv, sp)
        THEN <<Alarm("Nivel Baixo", lv, time)>> ELSE <<>>)
    \o (IF HighLevelFires(lv, sp)
        THEN <<Alarm("Nivel Alto", lv, time)>> ELSE <<>>)

\* setAlarms((a) => ...) of the callback's two branches
LogAlarmsOffByOne(new, a) ==
    IF Len(new) > 0 THEN SliceTo(new \o a, AlarmMax + 1) ELSE SliceTo(a, AlarmMax + 1)
LogAlarmsAtEnd(new, a) ==
    IF Len(new) > 0 THEN SliceTo(a \o new, AlarmMax) ELSE SliceTo(a, AlarmMax)
LogAlarmsDecay(new, a) ==
    IF Len(new) > 0 THEN SliceTo(new \o a, AlarmMax) ELSE SliceTo(a, Len(a) - 1)
LogAlarms(new, a) ==
    IF Len(new) > 0 THEN SliceTo(new \o a, AlarmMax) ELSE SliceTo(a, AlarmMax)

----------------------------------------------------------------------------
(* The interval effect *)

ClearIntervalNoop(ts, id) == ts
ClearInterval(ts, id) == {t \in ts : t.id # id}

SetInterval(ts, id, at, sp) == ts \cup {[id |-> id, due |-> at + Period, sp |-> sp]}

\* The effect re-run after a render with a new setpoints object: the old
\* effect's cleanup, then the effect body with the new closure.
RunEffectStale(ts, oldId, newId, at, sp) ==
    ClearInterval(ts, oldId)
        \cup {[id |-> newId, due |-> at + Period, sp |-> t.sp] :
                 t \in {u \in ts : u.id = oldId}}
RunEffectNoCleanup(ts, oldId, newId, at, sp) ==
    SetInterval(ts, newId, at, sp)
RunEffect(ts, oldId, newId, at, sp) ==
    SetInterval(ClearInterval(ts, oldId), newId, at, sp)

----------------------------------------------------------------------------
(* Rendering *)

Range(s) == {s[i] : i \in DOMAIN s}

\* The state setters the interval callback calls, by the task that calls
\* them: all ten in the callback itself.
TickSetterTasksDeferred ==
    << <<"tempSeries", "flowSeries", "pressSeries", "levelSeries",
         "tIn", "tOut", "flow", "press", "level">>,
       <<"alarms">> >>
TickSetterTasks ==
    << <<"tempSeries", "flowSeries", "pressSeries", "levelSeries",
         "tIn", "tOut", "flow", "press", "level", "alarms">> >>

\* The renders that follow the setter calls of a sequence of tasks: the
\* updates of one task are batched into one render, which shows every
\* update made so far.
Renders(tasks) ==
    [k \in 1..Len(tasks) |-> UNION {Range(tasks[j]) : j \in 1..k}]

----------------------------------------------------------------------------
(* Initial state: the first render and the first run of the effect *)

DefaultSetpoints ==
    [tempHigh |-> Fixed(78), flowLow |-> Fixed(130), pressHigh |-> 24000,
     levelLow |-> Fixed(20), levelHigh |-> Fixed(90)]

Init ==
    \E rs \in {SeedMixed} :
        /\ tempSeries = genSeed(SeedLen, Fixed(30), Fixed(6), rs, 0)
        /\ flowSeries = genSeed(SeedLen, Fixed(145), Fixed(30), rs, SeedLen)
        /\ pressSeries = genSeed(SeedLen, 21000, 6000, rs, 2 * SeedLen)
        /\ levelSeries = genSeed(SeedLen, Fixed(60), Fixed(18), rs, 3 * SeedLen)
        /\ tIn = Fixed(72) /\ tOut = Fixed(30) /\ flow = Fixed(150)
        /\ press = 21000 /\ level = Fixed(60)
        /\ pumpOn = TRUE /\ fanOn = TRUE
        /\ ethConnected = TRUE /\ modbusConnected = FALSE
        /\ alarms = <<>>
        /\ setpoints = DefaultSetpoints
        /\ timers = SetInterval({}, 1, 0, DefaultSetpoints)
        /\ intervalId = 1
        /\ nextId = 2
        /\ mounted = TRUE
        /\ now = 0
        /\ newAlarms = <<>>
        /\ pushed = <<>>
        /\ logged = <<>>
        /\ ticks = 0
        /\ lastTickAt = 0
        /\ cmds = 0
        /\ renders = <<>>
        /\ last = <<"mount">>

----------------------------------------------------------------------------
(* Operations *)

\* The setInterval callback (one tick), with Math.random() results d.
Tick(d, max) ==
    \E t \in timers :
        /\ ticks < max
        /\ t.due = now
        /\ LET time == nowLabel(now)
               newTIn == Fixed(70) + d.tIn * 150
               newTOut == Max2(Fixed(15), newTIn - (Fixed(8) + d.dT * 200))
               newTempAvg == Round2((newTIn + newTOut) \div 2)
               newFlow == Round2(Fixed(120) + d.flow * 600)
               newPress == Round2(16000 + d.press * 12)
               newLevel == Round2(Fixed(30) + d.level * 550)
               fired == EvaluateRules(newTempAvg, newFlow, newPress, newLevel,
                                      t.sp, time)
           IN  /\ tempSeries' = pushSeries(tempSeries, [time |-> time, value |-> newTempAvg], SeriesMax)
               /\ flowSeries' = pushSeries(flowSeries, [time |-> time, value |-> newFlow], SeriesMax)
               /\ pressSeries' = pushSeries(pressSeries, [time |-> time, value |-> newPress], SeriesMax)
               /\ levelSeries' = pushSeries(levelSeries, [time |-> time, value |-> newLevel], SeriesMax)
               /\ tIn' = Round2(newTIn)
               /\ tOut' = Round2(newTOut)
               /\ flow' = newFlow
               /\ press' = newPress
               /\ level' = newLevel
               /\ alarms' = LogAlarms(fired, alarms)
               /\ newAlarms' = fired
               /\ pushed' = Append(pushed, [time |-> time, temp |-> newTempAvg,
                                            flow |-> newFlow, press |-> newPress,
                                            level |-> newLevel])
               /\ logged' = fired \o logged
        /\ timers' = (timers \ {t}) \cup {[t EXCEPT !.due = now + Period]}
        /\ ticks' = ticks + 1
        /\ lastTickAt' = now
        /\ renders' = Renders(TickSetterTasks)
        /\ last' = <<"tick">>
        /\ UNCHANGED <<equipment, setpoints, intervalId, nextId, mounted, now, cmds>>

\* Time passes, up to the next timer that is due.
Advance(q, horizon) ==
    /\ now < horizon
    /\ \A t \in timers : t.due > now
    /\ LET stops == {now + q} \cup {t.due : t \in timers}
       IN  now' = CHOOSE x \in stops : \A y \in stops : x <= y
    /\ renders' = <<>>
    /\ last' = <<"advance">>
    /\ UNCHANGED <<series, instant, equipment, alarms, setpoints, effect,
                   mounted, history, cmds>>

\* onChange of the setpoint input of field f, with e.target.value = text;
\* the render that follows re-runs the effect (deps [setpoints]).
EditSetpoint(f, text) ==
    /\ setpoints' = [setpoints EXCEPT ![f] = Number(text)]
    /\ timers' = RunEffect(timers, intervalId, nextId, now, setpoints')
    /\ intervalId' = nextId
    /\ nextId' = nextId + 1
    /\ renders' = Renders(<< <<"setpoints">> >>)
    /\ last' = <<"edit", f, text>>
    /\ UNCHANGED <<series, instant, equipment, alarms, mounted, now, history>>

\* setAlarms([]) of the Aplicar button
AppliedAlarmsKept(a) == a
AppliedAlarms(a) == <<>>

\* onClick of the Aplicar button
ApplySetpoints ==
    /\ alarms' = AppliedAlarms(alarms)
    /\ logged' = <<>>
    /\ renders' = Renders(<< <<"alarms">> >>)
    /\ last' = <<"apply", Len(alarms)>>
    /\ UNCHANGED <<series, instant, equipment, setpoints, effect, mounted, now,
                   newAlarms, pushed, ticks, lastTickAt>>

\* onClick of the Resetar Historico button
ResetHistoryAndAlarms(rs) ==
    /\ tempSeries' = genSeed(SeedLen, Fixed(30), Fixed(6), rs, 0)
    /\ flowSeries' = genSeed(SeedLen, Fixed(145), Fixed(30), rs, SeedLen)
    /\ pressSeries' = genSeed(SeedLen, 21000, 6000, rs, 2 * SeedLen)
    /\ levelSeries' = genSeed(SeedLen, Fixed(60), Fixed(18), rs, 3 * SeedLen)
    /\ alarms' = <<>>
    /\ pushed' = <<>>
    /\ renders' = Renders(<< <<"tempSeries", "flowSeries", "pressSeries",
                               "levelSeries">> >>)
    /\ last' = <<"reset">>
    /\ UNCHANGED <<instant, equipment, setpoints, effect, mounted, now,
                   newAlarms, logged, ticks, lastTickAt>>
ResetHistory(rs) ==
    /\ tempSeries' = genSeed(SeedLen, Fixed(30), Fixed(6), rs, 0)
    /\ flowSeries' = genSeed(SeedLen, Fixed(145), Fixed(30), rs, SeedLen)
    /\ pressSeries' = genSeed(SeedLen, 21000, 6000, rs, 2 * SeedLen)
    /\ levelSeries' = genSeed(SeedLen, Fixed(60), Fixed(18), rs, 3 * SeedLen)
    /\ pushed' = <<>>
    /\ renders' = Renders(<< <<"tempSeries", "flowSeries", "pressSeries",
                               "levelSeries">> >>)
    /\ last' = <<"reset">>
    /\ UNCHANGED <<instant, equipment, alarms, setpoints, effect, mounted, now,
                   newAlarms, logged, ticks, lastTickAt>>

\* onClick of the pump and fan buttons
TogglePump ==
    /\ pumpOn' = ~pumpOn
    /\ renders' = Renders(<< <<"pumpOn">> >>)
    /\ last' = <<"pump">>
    /\ UNCHANGED <<series, instant, fanOn, ethConnected, modbusConnected,
                   alarms, setpoints, effect, mounted, now, history>>

ToggleFan ==
    /\ fanOn' = ~fanOn
    /\ renders' = Renders(<< <<"fanOn">> >>)
    /\ last' = <<"fan">>
    /\ UNCHANGED <<series, instant, pumpOn, ethConnected, modbusConnected,
                   alarms, setpoints, effect, mounted, now, history>>

\* onClick of the Simular EtherNet/IP and Simular Modbus buttons
SimulateEthernet ==
    /\ ethConnected' = TRUE
    /\ modbusConnected' = FALSE
    /\ renders' = Renders(<< <<"ethConnected", "modbusConnected">> >>)
    /\ last' = <<"eth">>
    /\ UNCHANGED <<series, instant, pumpOn, fanOn, alarms, setpoints, effect,
                   mounted, now, history>>

SimulateModbus ==
    /\ ethConnected' = FALSE
    /\ modbusConnected' = TRUE
    /\ renders' = Renders(<< <<"ethConnected", "modbusConnected">> >>)
    /\ last' = <<"modbus">>
    /\ UNCHANGED <<series, instant, pumpOn, fanOn, alarms, setpoints, effect,
                   mounted, now, history>>

\* The effect's cleanup, () => clearInterval(id): run when the component
\* unmounts (the simulator stops); running it again clears the same id.
StopSimulator ==
    /\ timers' = ClearInterval(timers, intervalId)
    /\ mounted' = FALSE
    /\ renders' = <<>>
    /\ last' = <<"stop", IF mounted THEN 1 ELSE 2>>
    /\ UNCHANGED <<series, instant, equipment, alarms, setpoints, intervalId,
                   nextId, now, history>>

----------------------------------------------------------------------------
(* Specifications *)

\* A command of the presentation layer: the component is mounted.
Command(A) == mounted /\ cmds < MaxCmds /\ cmds' = cmds + 1 /\ A

Next ==
    \/ \E d \in Draws : Tick(d, MaxTicks)
    \/ Advance(Period, Horizon) /\ UNCHANGED cmds
    \/ \E f \in Fields, text \in Inputs : Command(EditSetpoint(f, text))
    \/ Command(ApplySetpoints)
    \/ \E rs \in SeedStreams : Command(ResetHistory(rs))
    \/ Command(TogglePump)
    \/ Command(ToggleFan)
    \/ Command(SimulateEthernet)
    \/ Command(SimulateModbus)
    \/ cmds < MaxCmds /\ cmds' = cmds + 1 /\ StopSimulator

Spec == Init /\ [][Next]_vars

\* The same operations with commands arriving in the middle of a period.
NextFine ==
    \/ \E d \in Draws : Tick(d, MaxTicks)
    \/ Advance(Period \div 2, Horizon) /\ UNCHANGED cmds
    \/ \E f \in Fields, text \in Inputs : Command(EditSetpoint(f, text))
    \/ Command(ApplySetpoints)
    \/ \E rs \in SeedStreams : Command(ResetHistory(rs))
    \/ Command(TogglePump)
    \/ Command(ToggleFan)
    \/ Command(SimulateEthernet)
    \/ Command(SimulateModbus)
    \/ cmds < MaxCmds /\ cmds' = cmds + 1 /\ StopSimulator

SpecFine == Init /\ [][NextFine]_vars

\* Long runs: many ticks of one draw, with history resets and applies.
Uncounted(A) == mounted /\ UNCHANGED cmds /\ A

NextLong ==
    \/ \E d \in DrawsLong : Tick(d, MaxTicksLong)
    \/ Advance(Period, HorizonLong) /\ UNCHANGED cmds
    \/ Uncounted(ResetHistory(SeedFlat))
    \/ Uncounted(ApplySetpoints)

SpecLong == Init /\ [][NextLong]_vars

----------------------------------------------------------------------------
(* Properties *)

SeriesOf == [temp |-> tempSeries, flow |-> flowSeries,
             press |-> pressSeries, level |-> levelSeries]

\* The last k points of series s.
LastPoints(s, k) == SubSeq(s, Len(s) - k + 1, Len(s))

\* C1: every series holds at most 40 points; a series that is full drops
\* exactly its oldest point on a push, so its newest points are the points
\* pushed since the last seeding, in push order, and after 40 or more pushes
\* the series is exactly the last 40 pushed points.
C1_SeriesBoundedFifo ==
    LET n == Len(pushed)
        k == Min2(n, SeriesMax)
    IN  \A q \in DOMAIN SeriesOf :
            /\ Len(SeriesOf[q]) <= SeriesMax
            /\ Len(SeriesOf[q]) = Min2(SeriesMax, SeedLen + n)
            /\ LastPoints(SeriesOf[q], k) =
                   [i \in 1..k |-> [time |-> pushed[n - k + i].time,
                                    value |-> pushed[n - k + i][q]]]
            /\ \A i \in 1..(Len(SeriesOf[q]) - k) :
                   SeriesOf[q][i].time[1] = "seed"

\* C1 witness: more than 40 pushes since the last seeding; the series is
\* full and starts at the second pushed point.
C1_Witness ==
    /\ Len(pushed) > SeriesMax
    /\ Len(tempSeries) = SeriesMax
    /\ tempSeries[1].time = pushed[Len(pushed) - SeriesMax + 1].time
    /\ tempSeries[1].time # pushed[1].time

\* The number of alarms of a type in a list of alarms.
CountOf(as, type) == Cardinality({i \in DOMAIN as : as[i].type = type})

\* The position of an alarm type in the order of the rules.
RuleIndex(type) ==
    CASE type = "Alta Temperatura" -> 1
      [] type = "Baixa Vazao" -> 2
      [] type = "Pressao Elevada" -> 3
      [] type = "Nivel Baixo" -> 4
      [] type = "Nivel Alto" -> 5

\* The temperature average the last tick pushed.
LastTempAvg == tempSeries[Len(tempSeries)].value

\* C2: on every tick each of the five rules emits exactly one alarm if its
\* strict condition holds for the tick's readings and the current setpoints,
\* and none otherwise, whatever the other rules do; each alarm carries the
\* triggering value and the tick's time.
C2_RulesIndependent ==
    [][ticks' # ticks =>
        /\ CountOf(newAlarms', "Alta Temperatura")
              = IF LastTempAvg' > setpoints.tempHigh THEN 1 ELSE 0
        /\ CountOf(newAlarms', "Baixa Vazao")
              = IF flow' < setpoints.flowLow THEN 1 ELSE 0
        /\ CountOf(newAlarms', "Pressao Elevada")
              = IF press' > setpoints.pressHigh THEN 1 ELSE 0
        /\ CountOf(newAlarms', "Nivel Baixo")
              = IF level' < setpoints.levelLow THEN 1 ELSE 0
        /\ CountOf(newAlarms', "Nivel Alto")
              = IF level' > setpoints.levelHigh THEN 1 ELSE 0
        /\ \A i \in DOMAIN newAlarms' :
              /\ newAlarms'[i].time = nowLabel(now)
              /\ newAlarms'[i].value =
                    CASE RuleIndex(newAlarms'[i].type) = 1 -> LastTempAvg'
                      [] RuleIndex(newAlarms'[i].type) = 2 -> flow'
                      [] RuleIndex(newAlarms'[i].type) = 3 -> press'
                      [] OTHER -> level'
    ]_vars

\* C2 witness: a tick with levelLow > levelHigh in which both level rules
\* fired.
C2_Witness ==
    /\ last = <<"tick">>
    /\ setpoints.levelLow > setpoints.levelHigh
    /\ CountOf(newAlarms, "Nivel Baixo") = 1
    /\ CountOf(newAlarms, "Nivel Alto") = 1

\* The alarm log is ordered newest tick first, and in rule order within a
\* tick.
AlarmLogOrdered ==
    \A i, j \in DOMAIN alarms :
        i < j =>
            \/ alarms[i].time[2] > alarms[j].time[2]
            \/ /\ alarms[i].time = alarms[j].time
               /\ RuleIndex(alarms[i].type) < RuleIndex(alarms[j].type)

\* C3: the alarms of one tick are in rule order, carry the tick's time and
\* are put together in front of the alarms logged before, whose order is
\* kept; so the log is always ordered newest tick first and in rule order
\* within a tick.
C3_AlarmsPrependedInRuleOrder ==
    /\ []AlarmLogOrdered
    /\ [][ticks' # ticks =>
            /\ alarms' = SliceTo(newAlarms' \o alarms, AlarmMax)
            /\ \A i, j \in DOMAIN newAlarms' :
                  i < j => RuleIndex(newAlarms'[i].type)
                             < RuleIndex(newAlarms'[j].type)
            /\ \A i \in DOMAIN newAlarms' :
                  newAlarms'[i].time = nowLabel(now)
       ]_vars

\* C3 witness: a tick in which several rules fired, with alarms of an
\* earlier tick in the log behind them.
C3_Witness ==
    /\ last = <<"tick">>
    /\ Len(newAlarms) >= 2
    /\ Len(alarms) > Len(newAlarms)
    /\ SubSeq(alarms, 1, Len(newAlarms)) = newAlarms
    /\ alarms[Len(newAlarms) + 1].time # newAlarms[1].time

\* C4: the alarm log never holds more than 40 entries; it is the 40 newest
\* of the alarms logged since the last clear, so once more than 40 were
\* logged its length is exactly 40 and the oldest are the ones dropped.
C4_AlarmLogCapped ==
    /\ Len(alarms) <= AlarmMax
    /\ Len(logged) > AlarmMax => Len(alarms) = AlarmMax
    /\ alarms = SubSeq(logged, 1, Min2(Len(logged), AlarmMax))

\* C4 witness: more than 40 alarms logged since the last clear, just after
\* a tick that fired.
C4_Witness ==
    /\ Len(logged) > AlarmMax
    /\ Len(alarms) = AlarmMax
    /\ last = <<"tick">>
    /\ Len(newAlarms) > 0
    /\ alarms[1] = newAlarms[1]

\* C5: right after the Aplicar button the alarm log is empty.
C5_ApplyClearsLog == last[1] = "apply" => alarms = <<>>

\* C5 witness: Aplicar pressed while the log held alarms.
C5_Witness == last[1] = "apply" /\ last[2] > 0 /\ alarms = <<>>

\* C6 (as claimed): the setpoints change only when Aplicar is pressed.
C6_SetpointsOnlyByApply ==
    [][setpoints' # setpoints => last'[1] = "apply"]_vars

\* The text is a number: not empty and not malformed.
IsNumeric(text) == text # <<>> /\ Number(text) # NaN

\* C7 (as claimed): an edit whose text is not a number leaves the setpoints
\* as they were.
C7_MalformedInputRejected ==
    [][(last'[1] = "edit" /\ ~IsNumeric(last'[3])) => setpoints' = setpoints]_vars

\* C8: every tick evaluates the rules against the setpoints current at the
\* tick, and a change of setpoints leaves the alarm log as it is.
C8_TicksUseCurrentSetpoints ==
    [][/\ ticks' # ticks =>
            newAlarms' = EvaluateRules(LastTempAvg', flow', press', level',
                                       setpoints, nowLabel(now))
       /\ setpoints' # setpoints => alarms' = alarms
      ]_vars

\* C8 witness: a tick after a change of setpoints whose alarms differ from
\* the ones the initial setpoints give, with the log of before the change
\* still behind them.
C8_Witness ==
    /\ last = <<"tick">>
    /\ setpoints # DefaultSetpoints
    /\ newAlarms # EvaluateRules(LastTempAvg, flow, press, level,
                                 DefaultSetpoints, nowLabel(lastTickAt))
    /\ Len(alarms) > Len(newAlarms)

\* C9 (as claimed): consecutive ticks are exactly one period apart.
C9_TickGapIsPeriod ==
    [][(ticks' # ticks /\ ticks >= 1) => now - lastTickAt = Period]_vars

\* C10: once the simulator is stopped no timer is left and no tick fires,
\* and stopping again changes nothing.
C10_StopCancelsTicks ==
    /\ [](~mounted => timers = {})
    /\ [][~mounted => ticks' = ticks]_vars
    /\ [][(~mounted /\ last'[1] = "stop") =>
            UNCHANGED <<series, instant, equipment, alarms, setpoints,
                        effect, mounted, newAlarms>>]_vars

\* C10 witness: stopped a second time, two periods after the last tick.
C10_Witness ==
    /\ ~mounted
    /\ last = <<"stop", 2>>
    /\ ticks >= 1
    /\ now >= lastTickAt + 2 * Period

\* The state the presentation layer sees in a render, during a step, that
\* shows the updates of the slots in mask and the old values of the others.
ShownDuringStep(mask) ==
    [tempSeries |-> IF "tempSeries" \in mask THEN tempSeries' ELSE tempSeries,
     flowSeries |-> IF "flowSeries" \in mask THEN flowSeries' ELSE flowSeries,
     pressSeries |-> IF "pressSeries" \in mask THEN pressSeries' ELSE pressSeries,
     levelSeries |-> IF "levelSeries" \in mask THEN levelSeries' ELSE levelSeries,
     tIn |-> IF "tIn" \in mask THEN tIn' ELSE tIn,
     tOut |-> IF "tOut" \in mask THEN tOut' ELSE tOut,
     flow |-> IF "flow" \in mask THEN flow' ELSE flow,
     press |-> IF "press" \in mask THEN press' ELSE press,
     level |-> IF "level" \in mask THEN level' ELSE level,
     alarms |-> IF "alarms" \in mask THEN alarms' ELSE alarms]

TickSlots == {"tempSeries", "flowSeries", "pressSeries", "levelSeries",
              "tIn", "tOut", "flow", "press", "level", "alarms"}

\* The series, the readings and the alarm log all carry the last tick.
CarriesLastTick ==
    LET p == pushed[Len(pushed)]
        k == Len(newAlarms)
    IN  /\ tempSeries[Len(tempSeries)] = [time |-> p.time, value |-> p.temp]
        /\ flowSeries[Len(flowSeries)] = [time |-> p.time, value |-> p.flow]
        /\ pressSeries[Len(pressSeries)] = [time |-> p.time, value |-> p.press]
        /\ levelSeries[Len(levelSeries)] = [time |-> p.time, value |-> p.level]
        /\ flow = p.flow /\ press = p.press /\ level = p.level
        /\ 2 * p.temp - (tIn + tOut) \in -200..200
        /\ (Len(logged) >= k /\ SubSeq(logged, 1, k) = newAlarms) =>
              /\ Len(alarms) >= k
              /\ SubSeq(alarms, 1, k) = newAlarms
              /\ \A i \in 1..k : alarms[i].time = p.time

C12_ResetReplacesSeriesOnly ==
    [][last'[1] = "reset" =>
          /\ \E rs \in SeedStreams :
                /\ tempSeries' = genSeed(SeedLen, Fixed(30), Fixed(6), rs, 0)
                /\ flowSeries' = genSeed(SeedLen, Fixed(145), Fixed(30), rs, SeedLen)
                /\ pressSeries' = genSeed(SeedLen, 21000, 6000, rs, 2 * SeedLen)
                /\ levelSeries' = genSeed(SeedLen, Fixed(60), Fixed(18), rs, 3 * SeedLen)
          /\ \A q \in DOMAIN SeriesOf : \A i \in DOMAIN SeriesOf'[q] :
                SeriesOf'[q][i].time[1] = "seed"
          /\ UNCHANGED <<instant, alarms, setpoints>>
    ]_vars

\* C12 witness: a reset after a tick that moved the readings and left
\* alarms in the log; the series hold seed points only, the log is intact.
C12_Witness ==
    /\ last = <<"reset">>
    /\ ticks >= 1
    /\ alarms # <<>>
    /\ tIn # Fixed(72)
    /\ \A q \in DOMAIN SeriesOf :
          /\ Len(SeriesOf[q]) = SeedLen
          /\ SeriesOf[q][SeedLen].time[1] = "seed"

SeedPoints(s) == {i \in DOMAIN s : s[i].time[1] = "seed"}

\* The number of seed points left in a series after n pushes.
SeedsLeft(n) == Max2(0, Min2(SeedLen, SeriesMax - n))

\* C14 as stated: right after startup or a reset every series holds
\* SeriesMax points, so that the next push evicts a seed point.
C14_SeedFillsCapacity ==
    pushed = <<>> => \A q \in DOMAIN SeriesOf : Len(SeriesOf[q]) = SeriesMax

\* C14, amended: the seed of startup and of a reset fills each series with
\* SeedLen = 24 points, fewer than the capacity SeriesMax = 40; the next
\* SeriesMax - SeedLen = 16 pushes evict nothing and the 17th push is the
\* first to evict a seed point, the oldest one.
C14_SeedBelowCapacity ==
    LET n == Len(pushed)
    IN  /\ SeedLen < SeriesMax
        /\ \A q \in DOMAIN SeriesOf :
              LET s == SeriesOf[q]
              IN  /\ Len(s) = Min2(SeriesMax, SeedLen + n)
                  /\ n = 0 => Len(s) = SeedLen
                  /\ SeedPoints(s) = 1..SeedsLeft(n)
                  /\ \A i \in SeedPoints(s) :
                        s[i].time = <<"seed", SeedLen - SeedsLeft(n) + i - 1>>

\* C14 witness: after a reset, the 17th push has filled the series and
\* evicted the oldest seed point, and only that one.
C14_Witness ==
    /\ last = <<"tick">>
    /\ ticks > Len(pushed)
    /\ Len(pushed) = SeriesMax - SeedLen + 1
    /\ Len(tempSeries) = SeriesMax
    /\ tempSeries[1].time = <<"seed", 1>>

\* C15: at most one interval timer is live in every state, and while the
\* component is mounted it is the one whose id the effect holds; a setpoint
\* change removes every timer that was live and leaves one new timer; and
\* two ticks are never less than one period apart.
C15_SingleTimer ==
    /\ [](/\ Cardinality(timers) <= 1
          /\ \A t \in timers : t.id = intervalId
          /\ mounted => Cardinality(timers) = 1)
    /\ [][last'[1] = "edit" /\ mounted =>
            /\ timers \cap timers' = {}
            /\ \A t \in timers : \A u \in timers' : t.id # u.id
            /\ Cardinality(timers') = 1
       ]_vars
    /\ [][(ticks' # ticks /\ ticks >= 1) => now' - lastTickAt >= Period]_vars

\* C15 witness: two setpoint edits, each replacing the timer, with two
\* ticks, and one timer live after the last tick.
C15_Witness ==
    /\ last = <<"tick">>
    /\ ticks = 2
    /\ nextId >= 4
    /\ Cardinality(timers) = 1
    /\ \A t \in timers : t.id = nextId - 1 /\ t.due = now + Period

====
